---------------------------- MODULE Spec2Model ----------------------------
(***************************************************************************)
(* Model of src/app.py: the "six capitals" real-estate news dashboard.     *)
(*                                                                         *)
(* The script is one sequential page run: pick a model name                *)
(* (get_valid_model_name), fetch the feed (get_six_capital_news), analyse  *)
(* every headline (analyze_with_ai, a sleep-and-retry loop around          *)
(* generate_content), then build one marketing summary                     *)
(* (generate_marketing_summary, the same loop with other durations).       *)
(*                                                                         *)
(* Text is modelled with TLA+ strings and the operations the code applies  *)
(* to it (substring test, rsplit, lower, concatenation).  The module text  *)
(* is ASCII only, so the user-facing messages of the page, which are       *)
(* Chinese in the source, are written as ASCII stand-ins; each definition  *)
(* quotes the original literal in its comment.                             *)
(***************************************************************************)
EXTENDS Integers, Sequences, FiniteSets, TLC

(***************************************************************************)
(* Bounds of the model.                                                    *)
(***************************************************************************)
\* longest raw feed title (characters) enumerated for get_six_capital_news
MaxTitleLen == 5
\* longest feed (entries) enumerated for get_six_capital_news; the code
\* keeps 10 entries, so the bound is above 10
MaxFeedLen == 12
\* longest list_models() listing enumerated for get_valid_model_name
MaxListing == 3
\* longest feed of the page-flow specification
MaxPageFeed == 2
\* page runs (script executions) of one server process in the page flow
MaxRuns == 3

(***************************************************************************)
(* Python values.                                                          *)
(***************************************************************************)
\* Python's None, where the other values of the variable are strings
None == "<None>"

\* truthiness of an Optional[str]: None and "" are falsy
Truthy(v) == v # None /\ v # ""

\* Python: sub in s  (substring test on str)
Contains(sub, s) ==
    \E k \in 1..(Len(s) - Len(sub) + 1) : SubSeq(s, k, k + Len(sub) - 1) = sub

\* Python: s.rfind(sep) searched from position k downwards, 1-based; 0 when absent
RECURSIVE RFindFrom(_, _, _)
RFindFrom(s, sep, k) ==
    IF k < 1 THEN 0
    ELSE IF SubSeq(s, k, k + Len(sep) - 1) = sep THEN k
    ELSE RFindFrom(s, sep, k - 1)

\* Python: s.find(sep) searched from position k upwards, 1-based; 0 when absent
RECURSIVE FindFrom(_, _, _)
FindFrom(s, sep, k) ==
    IF k > Len(s) - Len(sep) + 1 THEN 0
    ELSE IF SubSeq(s, k, k + Len(sep) - 1) = sep THEN k
    ELSE FindFrom(s, sep, k + 1)

\* a split at the FIRST occurrence of sep (what s.split(sep, 1) would do)
split_once(s, sep) ==
    LET k == FindFrom(s, sep, 1)
    IN  IF k = 0 THEN <<s>>
        ELSE <<SubSeq(s, 1, k - 1), SubSeq(s, k + Len(sep), Len(s))>>

\* Python: s.rsplit(sep, 1): split once at the last occurrence of sep
rsplit_once(s, sep) ==
    LET k == RFindFrom(s, sep, Len(s) - Len(sep) + 1)
    IN  IF k = 0 THEN <<s>>
        ELSE <<SubSeq(s, 1, k - 1), SubSeq(s, k + Len(sep), Len(s))>>

UpperLetters == <<"A","B","C","D","E","F","G","H","I","J","K","L","M",
                  "N","O","P","Q","R","S","T","U","V","W","X","Y","Z">>
LowerLetters == <<"a","b","c","d","e","f","g","h","i","j","k","l","m",
                  "n","o","p","q","r","s","t","u","v","w","x","y","z">>

LowerChar(c) ==
    IF \E k \in 1..26 : UpperLetters[k] = c
    THEN LowerLetters[CHOOSE k \in 1..26 : UpperLetters[k] = c]
    ELSE c

\* Python: s.lower()
RECURSIVE lower(_)
lower(s) ==
    IF Len(s) = 0 THEN ""
    ELSE LowerChar(SubSeq(s, 1, 1)) \o lower(SubSeq(s, 2, Len(s)))

Digits == <<"0","1","2","3","4","5","6","7","8","9">>

\* strftime's two-digit, zero-padded fields (%m %d %H %M)
Pad2(n) == Digits[(n \div 10) + 1] \o Digits[(n % 10) + 1]

(***************************************************************************)
(* get_valid_model_name (src/app.py 128-162).                              *)
(*                                                                         *)
(* A list_models() result is a record: raises says that the call (or the   *)
(* iteration over its result) raised; models is the listing, a sequence of *)
(* records with the fields the code reads.                                 *)
(***************************************************************************)
DefaultModel == "models/gemini-1.5-flash"

preferences == << "models/gemini-1.5-flash",
                  "models/gemini-1.5-pro",
                  "models/gemini-1.0-pro",
                  "models/gemini-pro" >>

\* Python: x in lst
InList(x, lst) == \E k \in 1..Len(lst) : lst[k] = x

\* Python: x in lst, for the list of generation methods
Supports(m) == InList("generateContent", m.supported_generation_methods)

\* lines 134-137: the names of the listed models that support generateContent
RECURSIVE ValidModelsFrom(_, _)
ValidModelsFrom(models, k) ==
    IF k > Len(models) THEN <<>>
    ELSE (IF Supports(models[k]) THEN <<models[k].name>> ELSE <<>>)
         \o ValidModelsFrom(models, k + 1)

\* the names of all listed models, whatever they support
ValidModelsUnfiltered(models) == [ k \in 1..Len(models) |-> models[k].name ]

ValidModels(models) == ValidModelsFrom(models, 1)

\* lines 146-148: the first preference that is in valid_models, else None
RECURSIVE FirstPreferred(_, _)
FirstPreferred(valid, k) ==
    IF k > Len(preferences) THEN None
    ELSE IF InList(preferences[k], valid) THEN preferences[k]
    ELSE FirstPreferred(valid, k + 1)

\* lines 151 and 155: kw in m.lower() and 'exp' not in m.lower()
KeywordMatch(kw, m) == Contains(kw, lower(m)) /\ ~Contains("exp", lower(m))

\* lines 150-152 and 154-156: the first valid model matching the keyword, else None
RECURSIVE FirstByKeyword(_, _, _)
FirstByKeyword(valid, kw, k) ==
    IF k > Len(valid) THEN None
    ELSE IF KeywordMatch(kw, valid[k]) THEN valid[k]
    ELSE FirstByKeyword(valid, kw, k + 1)

\* the selection with the two keyword loops in the other order
SelectFromValidProFirst(valid) ==
    LET p == FirstPreferred(valid, 1)
        f == FirstByKeyword(valid, "flash", 1)
        q == FirstByKeyword(valid, "pro", 1)
    IN  IF p # None THEN p
        ELSE IF q # None THEN q
        ELSE IF f # None THEN f
        ELSE DefaultModel

\* lines 139-158: the selection among the valid models
SelectFromValid(valid) ==
    LET p == FirstPreferred(valid, 1)
        f == FirstByKeyword(valid, "flash", 1)
        q == FirstByKeyword(valid, "pro", 1)
    IN  IF p # None THEN p
        ELSE IF f # None THEN f
        ELSE IF q # None THEN q
        ELSE DefaultModel

\* the body without the API key check of lines 130-131
get_valid_model_name_unchecked(key, lr) ==
    IF lr.raises THEN DefaultModel
    ELSE SelectFromValid(ValidModels(lr.models))

\* the body of get_valid_model_name, for the API key and the list_models() result
get_valid_model_name(key, lr) ==
    IF ~Truthy(key) THEN None
    ELSE IF lr.raises THEN DefaultModel
    ELSE SelectFromValid(ValidModels(lr.models))

(***************************************************************************)
(* get_six_capital_news (src/app.py 165-197).                              *)
(*                                                                         *)
(* A feed entry is a record [title, link, published]; published is the     *)
(* tuple published_parsed, <<>> when the entry has none (falsy).           *)
(***************************************************************************)
\* line 174: feed.entries[:10]
NewsLimit == 10

\* line 188: the source of a title without separator ("新聞媒體", news media)
DefaultSource == "news-media"

\* line 182: the date of an entry without published_parsed ("最新", latest)
LatestDate == "latest"

\* Python: seq[:n]
Slice(seq, n) == SubSeq(seq, 1, IF Len(seq) < n THEN Len(seq) ELSE n)

\* line 180: datetime(*published[:6]).strftime('%m/%d %H:%M')
FormatDate(published) ==
    Pad2(published[2]) \o "/" \o Pad2(published[3]) \o " "
        \o Pad2(published[4]) \o ":" \o Pad2(published[5])

\* lines 175-195: the item built from one entry
NewsItem(entry) ==
    LET parts == IF Contains(" - ", entry.title)
                 THEN rsplit_once(entry.title, " - ")
                 ELSE <<entry.title, DefaultSource>>
    IN  [ title  |-> parts[1],
          link   |-> entry.link,
          source |-> parts[2],
          date   |-> IF Len(entry.published) > 0
                     THEN FormatDate(entry.published) ELSE LatestDate ]

\* the loop of line 174 over all entries, without the [:10] slice
get_all_news(feed) == [k \in 1..Len(feed) |-> NewsItem(feed[k])]

\* the function: one item per entry of feed.entries[:10], in order
get_six_capital_news(feed) ==
    LET entries == Slice(feed, NewsLimit)
    IN  [k \in 1..Len(entries) |-> NewsItem(entries[k])]

(***************************************************************************)
(* The retry loops of analyze_with_ai (src/app.py 214-232) and of          *)
(* generate_marketing_summary (260-275).  fn names the function.           *)
(***************************************************************************)
\* one retry more than the code allows
one_more_retry == 3 + 1

\* line 214
analyze_max_retries == 3
\* line 260
summary_max_retries == 3

max_retries(f) == IF f = "analyze" THEN analyze_max_retries ELSE summary_max_retries

\* a buffer sleep in analyze_with_ai only
BufferSecondsAnalyzeOnly(f) == IF f = "analyze" THEN 3 ELSE 0

\* lines 218 and 264: the buffer sleep before every generate_content call
BufferSeconds(f) == IF f = "analyze" THEN 3 ELSE 5

\* lines 226 and 271: the long sleep after a rate-limit error
BackoffSeconds(f) == IF f = "analyze" THEN 15 ELSE 20

\* lines 225 and 270: "429" in error_str
IsRateLimit(e) == Contains("429", e)

\* a handler that backs off after every error that is not the last
TakesBackoffAlways(f, e, att) == att < max_retries(f) - 1

\* lines 225 and 270: "429" in error_str and attempt < max_retries - 1
TakesBackoff(f, e, att) == IsRateLimit(e) /\ att < max_retries(f) - 1

\* lines 228 and 273: attempt == max_retries - 1
IsLastAttempt(f, att) == att = max_retries(f) - 1

\* line 203: "無法分析 (缺少 API Key)"
NoKeyAnalysis == "cannot analyze (missing API Key)"
\* line 238: "無法生成總結"
NoKeySummary == "cannot generate summary"
\* line 230: "⚠️ AI 分析忙碌中 (流量限制)，請稍後再試。"
BusyMessage == "[!] AI analysis busy (rate limit), try again later."
\* line 232: "⚠️ 未知錯誤"
UnknownError == "[!] unknown error"
\* line 275: "⚠️ 無法生成總結"
SummaryUnknown == "[!] cannot generate summary"
\* line 316: "⚠️ 無法連接 AI 模型"
NoModelPlaceholder == "[!] cannot connect to AI model"
\* line 342: "無法生成行銷總結"
SummaryUnavailable == "cannot generate marketing summary"

\* lines 232 and 275: the return after the loop
AfterLoopResult(f) == IF f = "analyze" THEN UnknownError ELSE SummaryUnknown

\* lines 203 and 238: the return without API key
NoKeyResult(f) == IF f = "analyze" THEN NoKeyAnalysis ELSE NoKeySummary

(***************************************************************************)
(* The environment: what the feed, list_models and generate_content give.  *)
(***************************************************************************)
\* response.text of a successful generate_content call
Texts == { "analysis A", "analysis B" }

\* str(e) of a failed generate_content call
Errors == { "429 Resource has been exhausted", "500 Internal error" }

Model(n, ok) == [ name |-> n,
                  supported_generation_methods |->
                      IF ok THEN <<"generateContent", "countTokens">>
                      ELSE <<"embedContent">> ]

Listed(models) == [ raises |-> FALSE, models |-> models ]
ListFails == [ raises |-> TRUE, models |-> <<>> ]

\* list_models results of the page flow: the call raises; a listing whose only
\* usable model is not a preference, after a preference that is not usable; a
\* listing without usable model; a listing of two usable preferences, the later
\* preference first; a listing whose first preference is not usable and whose
\* later preferences are; a listing whose only usable model is a 'pro' model
\* that is not a preference, before an 'exp' model
PageListResults ==
    { ListFails,
      Listed(<< Model("models/gemini-1.5-pro", FALSE),
                Model("models/gemini-2.0-flash", TRUE) >>),
      Listed(<< Model("models/embedding-001", FALSE) >>),
      Listed(<< Model("models/gemini-1.5-pro", TRUE),
                Model("models/gemini-1.5-flash", TRUE) >>),
      Listed(<< Model("models/gemini-1.5-flash", FALSE),
                Model("models/gemini-pro", TRUE),
                Model("models/gemini-1.0-pro", TRUE) >>),
      Listed(<< Model("models/gemini-2.0-flash-exp", TRUE),
                Model("models/gemini-2.5-pro", TRUE) >>) }

Entry(t, l, p) == [ title |-> t, link |-> l, published |-> p ]

\* feed entries of the page flow: two entries with the same headline from two
\* sources, and one without source
PageEntries ==
    { Entry("A - s1", "http://n/1", <<2024, 1, 5, 9, 7, 0, 4, 5, 0>>),
      Entry("A - s2", "http://n/2", <<>>),
      Entry("B", "http://n/3", <<2024, 12, 31, 23, 59, 58, 1, 366, 0>>) }

\* the feeds of the page flow: at most n of these entries
PageFeeds(n) == UNION { [1..k -> PageEntries] : k \in 0..n }

ApiKeys == { None, "", "AIza-key" }

(***************************************************************************)
(* State.                                                                  *)
(***************************************************************************)
VARIABLES
    api_key,            \* line 123: st.secrets.get("GEMINI_API_KEY")
    pc,                 \* position of the script
    runs,               \* script runs of this process so far
    refresh_clicked,    \* line 285: what st.button gives in this run
    list_result,        \* what genai.list_models() gave when last called
    model_cache,        \* st.cache_resource of get_valid_model_name: <<>> or <<value>>
    current_model_name, \* line 281
    feed,               \* feed.entries of the last feedparser.parse
    news_cache,         \* st.cache_data of get_six_capital_news: <<>> or <<value>>
    news_data,          \* line 293
    i,                  \* line 302: the item being processed (1-based)
    all_titles_for_summary, \* line 300
    cards,              \* the AI box rendered for each item (lines 318-326)
    summary_out,        \* the summary section: None, or what lines 340/342 render
    analysis_cache,     \* st.cache_data of analyze_with_ai: (title, model) -> result
    summary_cache,      \* st.cache_data of generate_marketing_summary
    fn,                 \* the function whose body runs: "analyze", "summary" or None
    attempt,            \* lines 215/261
    error_str,          \* lines 223/269
    ret,                \* the value the running body returns
    \* history, observation only
    slept,              \* seconds slept since the last request to the LLM service
    last_sleep,         \* seconds slept by the latest step (0: it did not sleep)
    inv_calls,          \* generate_content calls of the running invocation
    inv_errors,         \* str(e) of the failed calls of the running invocation
    inv_success,        \* a call of the running invocation succeeded
    last_resp,          \* response.text of that call
    analyze_begun,      \* titles analyze_with_ai was invoked with in this run
    analyze_returned,   \* analyze_with_ai invocations that returned in this run
    summary_begun,      \* arguments generate_marketing_summary was invoked with
    llm_called,         \* a request to the LLM service was made by this process
    responded           \* model names that answered a generate_content call

vars == << api_key, pc, runs, refresh_clicked, list_result, model_cache, current_model_name, feed,
           news_cache, news_data, i, all_titles_for_summary, cards, summary_out,
           analysis_cache, summary_cache, fn, attempt, error_str, ret,
           slept, last_sleep, inv_calls, inv_errors, inv_success, last_resp,
           analyze_begun, analyze_returned, summary_begun, llm_called, responded >>

envVars  == << api_key, refresh_clicked >>
modelVars == << list_result, model_cache, current_model_name >>
newsVars == << feed, news_cache, news_data >>
loopVars == << i, all_titles_for_summary, cards >>
cacheVars == << analysis_cache, summary_cache >>
bodyVars == << fn, attempt, error_str, ret >>
invHist  == << inv_calls, inv_errors, inv_success, last_resp >>
runHist  == << analyze_begun, analyze_returned, summary_begun >>
sleepHist == << slept, last_sleep >>

NoListResult == [ raises |-> FALSE, models |-> <<>> ]
EmptyCache == <<>>

\* everything but api_key, pc, list_result and feed, as a fresh process has it
Fresh ==
    /\ runs = 1 /\ refresh_clicked = FALSE
    /\ model_cache = <<>> /\ current_model_name = None
    /\ news_cache = <<>> /\ news_data = <<>>
    /\ i = 1 /\ all_titles_for_summary = <<>> /\ cards = <<>>
    /\ summary_out = None
    /\ analysis_cache = EmptyCache /\ summary_cache = EmptyCache
    /\ fn = None /\ attempt = 0 /\ error_str = None /\ ret = None
    /\ slept = 0 /\ last_sleep = 0
    /\ inv_calls = 0 /\ inv_errors = <<>> /\ inv_success = FALSE /\ last_resp = None
    /\ analyze_begun = <<>> /\ analyze_returned = 0 /\ summary_begun = <<>>
    /\ llm_called = FALSE /\ responded = {}

Init ==
    /\ api_key \in ApiKeys
    /\ pc = "start"
    /\ list_result = NoListResult
    /\ feed = <<>>
    /\ Fresh

\* a failure result built from the first error of the invocation
FailureResultFirstError(f, e) ==
    IF f = "analyze"
    THEN IF IsRateLimit(inv_errors[1]) THEN BusyMessage
         ELSE "[!] analysis failed (" \o inv_errors[1] \o ")"
    ELSE "[!] summary generation failed: " \o inv_errors[1]

\* lines 229-231 and 274: the string returned after the last failed attempt, for
\* error_str e: "⚠️ 分析失敗 ({error_str})" and "⚠️ 總結生成失敗: {error_str}"
FailureResult(f, e) ==
    IF f = "analyze"
    THEN IF IsRateLimit(e) THEN BusyMessage
         ELSE "[!] analysis failed (" \o e \o ")"
    ELSE "[!] summary generation failed: " \o e

(***************************************************************************)
(* The page run (src/app.py 278-344).                                      *)
(***************************************************************************)
\* line 281, get_valid_model_name() with an empty st.cache_resource: the body
\* runs; it calls list_models only with an API key
SelectModel ==
    /\ pc = "start"
    /\ model_cache = <<>>
    /\ \E lr \in PageListResults :
          /\ list_result' = (IF Truthy(api_key) THEN lr ELSE list_result)
          /\ current_model_name' = get_valid_model_name(api_key, lr)
          /\ model_cache' = << get_valid_model_name(api_key, lr) >>
    /\ llm_called' = (llm_called \/ Truthy(api_key))
    /\ slept' = (IF Truthy(api_key) THEN 0 ELSE slept)
    /\ last_sleep' = 0
    /\ pc' = "button"
    /\ UNCHANGED << envVars, runs, newsVars, loopVars, summary_out, cacheVars,
                    bodyVars, invHist, runHist, responded >>

\* line 281 with the result cached by an earlier run
SelectModelCached ==
    /\ pc = "start"
    /\ model_cache # <<>>
    /\ current_model_name' = model_cache[1]
    /\ last_sleep' = 0
    /\ pc' = "button"
    /\ UNCHANGED << envVars, runs, list_result, model_cache, newsVars, loopVars,
                    summary_out, cacheVars, bodyVars, invHist, runHist, slept,
                    llm_called, responded >>

\* line 285: the refresh button was not clicked, the script goes on to line 291
ButtonNotClicked ==
    /\ pc = "button"
    /\ ~refresh_clicked
    /\ pc' = "fetch"
    /\ last_sleep' = 0
    /\ UNCHANGED << envVars, runs, modelVars, newsVars, loopVars, summary_out,
                    cacheVars, bodyVars, invHist, runHist, slept, llm_called,
                    responded >>

\* lines 295-300: after news_data is known
AfterFetch(items) ==
    /\ news_data' = items
    /\ pc' = (IF Len(items) = 0 THEN "done" ELSE "loop")
    /\ i' = 1
    /\ all_titles_for_summary' = <<>>
    /\ last_sleep' = 0

\* line 293, get_six_capital_news() with an empty st.cache_data: the feed is
\* fetched and parsed.  The runs of one process are taken to fall within the
\* hour of ttl=3600, so an entry leaves the cache only through the refresh button.
FetchNews ==
    /\ pc = "fetch"
    /\ news_cache = <<>>
    /\ \E f \in PageFeeds(MaxPageFeed) :
          /\ feed' = f
          /\ news_cache' = << get_six_capital_news(f) >>
          /\ AfterFetch(get_six_capital_news(f))
    /\ UNCHANGED << envVars, runs, modelVars, cards, summary_out, cacheVars,
                    bodyVars, invHist, runHist, slept, llm_called, responded >>

\* line 293 with the result cached by an earlier run
FetchNewsCached ==
    /\ pc = "fetch"
    /\ news_cache # <<>>
    /\ AfterFetch(news_cache[1])
    /\ UNCHANGED << envVars, runs, modelVars, feed, news_cache, cards, summary_out,
                    cacheVars, bodyVars, invHist, runHist, slept, llm_called,
                    responded >>

Card(news, ai_result) ==
    [ title |-> news.title, link |-> news.link, source |-> news.source,
      date |-> news.date, ai |-> ai_result ]

AnalysisKey(title) == << title, current_model_name >>
SummaryKey(titles) == << titles, current_model_name >>

\* lines 302-328 for an item when current_model_name is falsy
NoModelCard ==
    /\ pc = "loop" /\ i <= Len(news_data)
    /\ ~Truthy(current_model_name)
    /\ all_titles_for_summary' = Append(all_titles_for_summary, news_data[i].title)
    /\ cards' = Append(cards, Card(news_data[i], NoModelPlaceholder))
    /\ i' = i + 1
    /\ last_sleep' = 0
    /\ UNCHANGED << envVars, pc, runs, modelVars, newsVars, summary_out, cacheVars,
                    bodyVars, invHist, runHist, slept, llm_called, responded >>

\* lines 302-328 for an item whose analysis is in st.cache_data: analyze_with_ai
\* is invoked and returns the cached result; its body does not run
AnalyzeCached ==
    /\ pc = "loop" /\ i <= Len(news_data)
    /\ Truthy(current_model_name)
    /\ AnalysisKey(news_data[i].title) \in DOMAIN analysis_cache
    /\ all_titles_for_summary' = Append(all_titles_for_summary, news_data[i].title)
    /\ analyze_begun' = Append(analyze_begun, news_data[i].title)
    /\ analyze_returned' = analyze_returned + 1
    /\ cards' = Append(cards, Card(news_data[i],
                                   analysis_cache[AnalysisKey(news_data[i].title)]))
    /\ i' = i + 1
    /\ last_sleep' = 0
    /\ UNCHANGED << envVars, pc, runs, modelVars, newsVars, summary_out, cacheVars,
                    bodyVars, invHist, summary_begun, slept, llm_called, responded >>

\* lines 201-214 and 236-260: the body starts
EnterBody(f) ==
    /\ fn' = f
    /\ attempt' = 0
    /\ error_str' = None
    /\ inv_calls' = 0 /\ inv_errors' = <<>> /\ inv_success' = FALSE
    /\ last_resp' = None
    /\ last_sleep' = 0
    /\ IF ~Truthy(api_key)
       THEN ret' = NoKeyResult(f) /\ pc' = "return"
       ELSE ret' = None /\ pc' = "attempt"

\* lines 302-314 for an item whose analysis is not cached: analyze_with_ai is
\* invoked and its body starts
AnalyzeCall ==
    /\ pc = "loop" /\ i <= Len(news_data)
    /\ Truthy(current_model_name)
    /\ AnalysisKey(news_data[i].title) \notin DOMAIN analysis_cache
    /\ all_titles_for_summary' = Append(all_titles_for_summary, news_data[i].title)
    /\ analyze_begun' = Append(analyze_begun, news_data[i].title)
    /\ EnterBody("analyze")
    /\ UNCHANGED << envVars, runs, modelVars, newsVars, i, cards, summary_out,
                    cacheVars, analyze_returned, summary_begun, slept, llm_called,
                    responded >>

\* lines 215-218 and 261-264: the loop head and the buffer sleep of an attempt
BufferSleep ==
    /\ pc = "attempt"
    /\ IF attempt < max_retries(fn)
       THEN /\ slept' = slept + BufferSeconds(fn)
            /\ last_sleep' = BufferSeconds(fn)
            /\ pc' = "call"
            /\ ret' = ret
       ELSE /\ ret' = AfterLoopResult(fn)
            /\ pc' = "return"
            /\ UNCHANGED slept
            /\ last_sleep' = 0
    /\ UNCHANGED << envVars, runs, modelVars, newsVars, loopVars, summary_out,
                    cacheVars, fn, attempt, error_str, invHist, runHist,
                    llm_called, responded >>

\* lines 219-221 and 265-267: generate_content answers; the body returns its text
CallSucceeds ==
    /\ pc = "call"
    /\ \E text \in Texts :
          /\ last_resp' = text
          /\ ret' = text
    /\ inv_calls' = inv_calls + 1
    /\ inv_success' = TRUE
    /\ responded' = responded \cup { current_model_name }
    /\ llm_called' = TRUE
    /\ slept' = 0 /\ last_sleep' = 0
    /\ pc' = "return"
    /\ UNCHANGED << envVars, runs, modelVars, newsVars, loopVars, summary_out,
                    cacheVars, fn, attempt, error_str, inv_errors, runHist >>

\* lines 219-223 and 265-269: the attempt raises; error_str = str(e)
CallFails ==
    /\ pc = "call"
    /\ \E e \in Errors :
          /\ error_str' = e
          /\ inv_errors' = Append(inv_errors, e)
    /\ inv_calls' = inv_calls + 1
    /\ llm_called' = TRUE
    /\ slept' = 0 /\ last_sleep' = 0
    /\ pc' = "except"
    /\ UNCHANGED << envVars, runs, modelVars, newsVars, loopVars, summary_out,
                    cacheVars, fn, attempt, ret, inv_success, last_resp, runHist,
                    responded >>

\* lines 224-231 and 270-274: the handler
HandleError ==
    /\ pc = "except"
    /\ IF TakesBackoff(fn, error_str, attempt)
       THEN /\ slept' = slept + BackoffSeconds(fn)
            /\ last_sleep' = BackoffSeconds(fn)
            /\ attempt' = attempt + 1
            /\ pc' = "attempt"
            /\ ret' = ret
       ELSE IF IsLastAttempt(fn, attempt)
       THEN /\ ret' = FailureResult(fn, error_str)
            /\ pc' = "return"
            /\ UNCHANGED << slept, attempt >>
            /\ last_sleep' = 0
       ELSE /\ attempt' = attempt + 1
            /\ pc' = "attempt"
            /\ UNCHANGED << slept, ret >>
            /\ last_sleep' = 0
    /\ UNCHANGED << envVars, runs, modelVars, newsVars, loopVars, summary_out,
                    cacheVars, fn, error_str, invHist, runHist, llm_called,
                    responded >>

\* the body's locals after its return
LeaveBody ==
    /\ fn' = None /\ attempt' = 0 /\ error_str' = None /\ ret' = None
    /\ inv_calls' = 0 /\ inv_errors' = <<>> /\ inv_success' = FALSE
    /\ last_resp' = None
    /\ last_sleep' = 0

\* analyze_with_ai returns: st.cache_data keeps the result, lines 318-328 render it
AnalyzeReturn ==
    /\ pc = "return" /\ fn = "analyze"
    /\ analysis_cache' = (AnalysisKey(news_data[i].title) :> ret) @@ analysis_cache
    /\ cards' = Append(cards, Card(news_data[i], ret))
    /\ analyze_returned' = analyze_returned + 1
    /\ i' = i + 1
    /\ pc' = "loop"
    /\ LeaveBody
    /\ UNCHANGED << envVars, runs, modelVars, newsVars, all_titles_for_summary,
                    summary_out, summary_cache, analyze_begun, summary_begun, slept,
                    llm_called, responded >>

\* a loop that is left one item early
LoopDoneEarly == i >= Len(news_data)

\* line 302: the for loop over news_data is exhausted
LoopDone == i > Len(news_data)

\* lines 336-342 when the condition of line 337 is false
SummaryUnavailableShown ==
    /\ pc = "loop" /\ LoopDone
    /\ ~(Truthy(current_model_name) /\ Len(all_titles_for_summary) > 0)
    /\ summary_out' = SummaryUnavailable
    /\ pc' = "done"
    /\ last_sleep' = 0
    /\ UNCHANGED << envVars, runs, modelVars, newsVars, loopVars, cacheVars,
                    bodyVars, invHist, runHist, slept, llm_called, responded >>

\* lines 337-340 with the summary in st.cache_data
SummaryCached ==
    /\ pc = "loop" /\ LoopDone
    /\ Truthy(current_model_name) /\ Len(all_titles_for_summary) > 0
    /\ SummaryKey(all_titles_for_summary) \in DOMAIN summary_cache
    /\ summary_begun' = Append(summary_begun, all_titles_for_summary)
    /\ summary_out' = summary_cache[SummaryKey(all_titles_for_summary)]
    /\ pc' = "done"
    /\ last_sleep' = 0
    /\ UNCHANGED << envVars, runs, modelVars, newsVars, loopVars, cacheVars,
                    bodyVars, invHist, analyze_begun, analyze_returned, slept,
                    llm_called, responded >>

\* lines 337-338: generate_marketing_summary is invoked and its body starts
SummaryCall ==
    /\ pc = "loop" /\ LoopDone
    /\ Truthy(current_model_name) /\ Len(all_titles_for_summary) > 0
    /\ SummaryKey(all_titles_for_summary) \notin DOMAIN summary_cache
    /\ summary_begun' = Append(summary_begun, all_titles_for_summary)
    /\ EnterBody("summary")
    /\ UNCHANGED << envVars, runs, modelVars, newsVars, loopVars, summary_out,
                    cacheVars, analyze_begun, analyze_returned, slept, llm_called,
                    responded >>

\* generate_marketing_summary returns: cached, rendered by line 340
SummaryReturn ==
    /\ pc = "return" /\ fn = "summary"
    /\ summary_cache' = (SummaryKey(all_titles_for_summary) :> ret) @@ summary_cache
    /\ summary_out' = ret
    /\ pc' = "done"
    /\ LeaveBody
    /\ UNCHANGED << envVars, runs, modelVars, newsVars, loopVars, analysis_cache,
                    runHist, slept, llm_called, responded >>

\* what a new script run starts from: the caches stay, the page is rebuilt
NewRun ==
    /\ pc = "done"
    /\ runs' = runs + 1
    /\ pc' = "start"
    /\ current_model_name' = None
    /\ news_data' = <<>>
    /\ i' = 1 /\ all_titles_for_summary' = <<>> /\ cards' = <<>>
    /\ summary_out' = None
    /\ analyze_begun' = <<>> /\ analyze_returned' = 0 /\ summary_begun' = <<>>
    /\ last_sleep' = 0
    /\ feed' = <<>>
    /\ UNCHANGED << api_key, list_result, model_cache, news_cache, cacheVars,
                    bodyVars, invHist, slept, llm_called, responded >>

\* the script is run again (another widget interaction or a browser reload):
\* st.button of line 285 gives False in the new run
Rerun ==
    /\ runs < MaxRuns
    /\ NewRun
    /\ refresh_clicked' = FALSE

\* the refresh button is clicked: streamlit runs the script again, and in that
\* run st.button of line 285 gives True.  The run st.rerun() then starts is a
\* run of its own, so two more runs are needed.
ClickRefresh ==
    /\ runs + 1 < MaxRuns
    /\ NewRun
    /\ refresh_clicked' = TRUE

\* lines 285-288, in the run the click started, after line 281: both caches are
\* cleared and st.rerun() ends this run and starts the next one, in which the
\* button gives False
ForceRefresh ==
    /\ pc = "button"
    /\ refresh_clicked
    /\ model_cache' = <<>>
    /\ news_cache' = <<>>
    /\ analysis_cache' = EmptyCache
    /\ summary_cache' = EmptyCache
    /\ runs' = runs + 1
    /\ refresh_clicked' = FALSE
    /\ pc' = "start"
    /\ current_model_name' = None
    /\ last_sleep' = 0
    /\ UNCHANGED << api_key, list_result, feed, news_data, loopVars, summary_out,
                    bodyVars, invHist, runHist, slept, llm_called, responded >>

Next ==
    \/ SelectModel \/ SelectModelCached \/ ButtonNotClicked
    \/ FetchNews \/ FetchNewsCached
    \/ NoModelCard \/ AnalyzeCached \/ AnalyzeCall
    \/ BufferSleep \/ CallSucceeds \/ CallFails \/ HandleError
    \/ AnalyzeReturn
    \/ SummaryUnavailableShown \/ SummaryCached \/ SummaryCall \/ SummaryReturn
    \/ Rerun \/ ClickRefresh \/ ForceRefresh

Spec == Init /\ [][Next]_vars

(***************************************************************************)
(* get_valid_model_name as a function of its inputs: the API key and what  *)
(* list_models gives.                                                      *)
(***************************************************************************)
ModelNames ==
    { "models/gemini-1.5-flash", "models/gemini-1.5-pro", "models/gemini-1.0-pro",
      "models/gemini-pro", "models/gemini-2.0-flash", "models/gemini-2.0-flash-exp",
      "models/gemini-2.5-pro", "models/gemini-2.0-pro-exp", "models/Gemini-Flash-8B",
      "models/embedding-001" }

ListedModels ==
    { Model(n, TRUE) : n \in ModelNames }
        \cup { Model(n, FALSE) : n \in { "models/gemini-1.5-flash",
                                         "models/gemini-2.0-flash",
                                         "models/embedding-001" } }

\* list_models raises, or gives any listing of at most MaxListing of these models
InitModel ==
    /\ api_key \in ApiKeys
    /\ pc = "model_in"
    /\ \/ list_result = ListFails
       \/ \E n \in 0..MaxListing : \E l \in [1..n -> ListedModels] :
             list_result = Listed(l)
    /\ feed = <<>>
    /\ Fresh

\* get_valid_model_name() is called
ApplyModel ==
    /\ pc = "model_in"
    /\ current_model_name' = get_valid_model_name(api_key, list_result)
    /\ model_cache' = << get_valid_model_name(api_key, list_result) >>
    /\ llm_called' = Truthy(api_key)
    /\ pc' = "model_out"
    /\ UNCHANGED << envVars, runs, list_result, newsVars, loopVars, summary_out,
                    cacheVars, bodyVars, invHist, runHist, sleepHist, responded >>

NextModel == ApplyModel

SpecModel == InitModel /\ [][NextModel]_vars

(***************************************************************************)
(* get_six_capital_news as a function of the feed.                         *)
(***************************************************************************)
TitleChars == { "a", " ", "-" }

RECURSIVE StringsOfLen(_)
StringsOfLen(n) ==
    IF n = 0 THEN { "" }
    ELSE { t \o c : t \in StringsOfLen(n - 1), c \in TitleChars }


\* the entry at position k of a feed, where the enumerated title is not: every
\* position has its own headline, odd ones have two separators and no date
FillerEntry(k) ==
    IF k % 2 = 1
    THEN Entry("h" \o Pad2(k) \o " - x - src" \o Pad2(k), "http://n/" \o Pad2(k), <<>>)
    ELSE Entry("h" \o Pad2(k), "http://n/" \o Pad2(k),
               <<2024, 1 + (k % 12), k, k + 10, 4 * k, 30, 0, 1, 0>>)

FeedWith(n, k, t) ==
    [ j \in 1..n |-> IF j = k THEN Entry(t, "http://n/t", <<>>) ELSE FillerEntry(j) ]

\* the empty feed, and the feeds of up to MaxFeedLen entries with, at any one
\* position, any title of at most MaxTitleLen characters over TitleChars
InitNews ==
    /\ api_key = None
    /\ pc = "news_in"
    /\ list_result = NoListResult
    /\ \/ feed = <<>>
       \/ \E n \in 1..MaxFeedLen : \E k \in 1..n : \E m \in 0..MaxTitleLen :
             \E t \in StringsOfLen(m) : feed = FeedWith(n, k, t)
    /\ Fresh

\* get_six_capital_news() is called
ApplyNews ==
    /\ pc = "news_in"
    /\ news_data' = get_six_capital_news(feed)
    /\ news_cache' = << get_six_capital_news(feed) >>
    /\ pc' = "news_out"
    /\ UNCHANGED << envVars, runs, modelVars, feed, loopVars, summary_out,
                    cacheVars, bodyVars, invHist, runHist, sleepHist, llm_called,
                    responded >>

NextNews == ApplyNews

SpecNews == InitNews /\ [][NextNews]_vars


(***************************************************************************)
(* Properties.                                                             *)
(***************************************************************************)
\* the body of analyze_with_ai or generate_marketing_summary is in its retry loop
InBody == pc \in { "attempt", "call", "except" }

\* the names list_models listed as supporting generateContent, in listing order
ListedValid ==
    SelectSeq([ k \in 1..Len(list_result.models) |-> list_result.models[k] ],
              LAMBDA m : \E j \in 1..Len(m.supported_generation_methods) :
                            m.supported_generation_methods[j] = "generateContent")

ListedValidNames == [ k \in 1..Len(ListedValid) |-> ListedValid[k].name ]

IsFlash(m) == Contains("flash", lower(m)) /\ ~Contains("exp", lower(m))
IsPro(m) == Contains("pro", lower(m)) /\ ~Contains("exp", lower(m))

\* s[k] is the first element of s in the set S
FirstIn(s, k, S) == s[k] \in S /\ \A j \in 1..(k - 1) : s[j] \notin S

\* C1, as stated: the model name get_valid_model_name returns is one that has
\* responded successfully (to a generate_content call).
C1_ReturnedModelHasResponded ==
    (pc = "button" /\ Truthy(current_model_name)) => current_model_name \in responded

\* C1, amended: the fallback chain is a lookup, not a probe.  While
\* get_valid_model_name runs (line 281) no generate_content call is made and no
\* model responds.  With an API key and list_models succeeding, the name it
\* returns is the first of the four ordered candidates that list_models lists
\* as supporting generateContent, whatever the listing order; when no candidate
\* is, the first such listed model, in listing order, whose lowercase name
\* contains 'flash' and not 'exp'; else the first whose lowercase name contains
\* 'pro' and not 'exp'; and only when there is none of these, or when
\* list_models raises, the default 'models/gemini-1.5-flash', which is returned
\* without being checked.
C1_SelectedFromListingUntried ==
    [][ pc = "start" =>
          /\ responded' = responded
          /\ inv_calls' = inv_calls
          /\ pc' = "button"
          /\ Truthy(api_key) =>
                LET r == current_model_name'
                    V == ListedValidNames'
                    VS == { V[k] : k \in 1..Len(V) }
                    P == << "models/gemini-1.5-flash", "models/gemini-1.5-pro",
                            "models/gemini-1.0-pro", "models/gemini-pro" >>
                    PS == { P[k] : k \in 1..4 }
                    flash == { m \in VS : IsFlash(m) }
                    pro == { m \in VS : IsPro(m) }
                IN  IF list_result'.raises
                    THEN r = "models/gemini-1.5-flash"
                    ELSE IF PS \cap VS # {}
                    THEN \E k \in 1..4 : r = P[k] /\ FirstIn(P, k, VS)
                    ELSE IF flash # {}
                    THEN \E k \in 1..Len(V) : r = V[k] /\ FirstIn(V, k, flash)
                    ELSE IF pro # {}
                    THEN \E k \in 1..Len(V) : r = V[k] /\ FirstIn(V, k, pro)
                    ELSE r = "models/gemini-1.5-flash"
      ]_vars

\* C1 witness: the first candidate is listed without generateContent, so a
\* later candidate was returned, the one earlier in the candidate order although
\* it is listed after another usable candidate; no model has responded
C1_Witness ==
    /\ pc = "button" /\ Truthy(api_key)
    /\ current_model_name = "models/gemini-1.0-pro"
    /\ Len(ListedValidNames) = 2
    /\ ListedValidNames[1] = "models/gemini-pro"
    /\ responded = {}

\* calls an invocation in its retry loop may still make
Remaining ==
    3 * (3 - attempt) + (CASE pc = "attempt" -> 3 [] pc = "call" -> 2
                           [] pc = "except" -> 1 [] OTHER -> 0)

\* C2: with an API key, every invocation of analyze_with_ai and of
\* generate_marketing_summary terminates after at most 3 generate_content calls,
\* whatever the calls' outcomes: in the retry loop a step is always possible and
\* every step either returns or brings the end of the loop nearer.  The first
\* successful call ends the invocation, which returns that call's response text
\* and makes no further call.
C2_BoundedRetry ==
    /\ [] ( /\ inv_calls <= 3
            /\ InBody => /\ Truthy(api_key)
                         /\ ~inv_success
                         /\ Len(inv_errors) = inv_calls
                         /\ Remaining > 0
                         /\ ENABLED (BufferSleep \/ CallSucceeds \/ CallFails
                                        \/ HandleError)
            /\ inv_success => /\ pc = "return"
                              /\ ret = last_resp
                              /\ last_resp \in Texts
                              /\ inv_calls = Len(inv_errors) + 1
            /\ pc = "return" => ENABLED (AnalyzeReturn \/ SummaryReturn) )
    /\ [][ /\ InBody => \/ InBody' /\ Remaining' < Remaining
                        \/ pc' = "return"
           /\ inv_calls' > inv_calls => ~inv_success /\ inv_calls' = inv_calls + 1
           /\ pc = "return" => pc' \in { "loop", "done" } /\ inv_calls' = 0
       ]_vars

\* C2 witness: an invocation whose third call was the first to succeed returns
C2_Witness ==
    /\ pc = "return" /\ inv_success /\ inv_calls = 3
    /\ ret = "analysis B"

\* the titles of the news items, in order
NewsTitles == [ k \in 1..Len(news_data) |-> news_data[k].title ]

\* C3: in a run with a non-empty news list and a selected model the headlines
\* are processed in order: analyze_with_ai is invoked once per item, with the
\* item's title, an invocation begins only when the one before has returned,
\* and generate_marketing_summary is invoked once, after every analysis has
\* returned, with the titles of all items in order.
C3_InOrder ==
    (pc \in { "loop", "attempt", "call", "except", "return", "done" }
        /\ Len(news_data) > 0 /\ Truthy(current_model_name)) =>
      /\ Len(analyze_begun) <= Len(news_data)
      /\ analyze_begun = SubSeq(NewsTitles, 1, Len(analyze_begun))
      /\ Len(analyze_begun) - analyze_returned =
            (IF fn = "analyze" THEN 1 ELSE 0)
      /\ analyze_returned = Len(cards)
      /\ Len(summary_begun) <= 1
      /\ Len(summary_begun) = 1 =>
            /\ analyze_returned = Len(news_data)
            /\ summary_begun[1] = NewsTitles
      /\ fn = "summary" => Len(summary_begun) = 1
      /\ pc = "done" => /\ Len(analyze_begun) = Len(news_data)
                        /\ Len(summary_begun) = 1

\* C3 witness: a run over two different headlines is complete
C3_Witness ==
    /\ pc = "done" /\ Truthy(current_model_name)
    /\ Len(news_data) = 2 /\ news_data[1].title # news_data[2].title
    /\ analyze_begun = << news_data[1].title, news_data[2].title >>
    /\ summary_begun = << analyze_begun >>

\* C4: with an API key and list_models succeeding, get_valid_model_name returns
\* the first of the four preferences that is a valid model (one supporting
\* generateContent); else the first valid model, in listing order, whose
\* lowercase name contains 'flash' and not 'exp'; else the first whose lowercase
\* name contains 'pro' and not 'exp'; else 'models/gemini-1.5-flash'.  When
\* list_models raises it returns that default.  So it never returns None, and a
\* result other than the default is a valid model.
C4_SelectionPriority ==
    (pc = "model_out" /\ Truthy(api_key)) =>
      LET r == current_model_name
          V == ListedValidNames
          VS == { V[k] : k \in 1..Len(V) }
          P == << "models/gemini-1.5-flash", "models/gemini-1.5-pro",
                  "models/gemini-1.0-pro", "models/gemini-pro" >>
          PS == { P[k] : k \in 1..4 }
          flash == { m \in VS : IsFlash(m) }
          pro == { m \in VS : IsPro(m) }
      IN  /\ r # None
          /\ r # "models/gemini-1.5-flash" => r \in VS
          /\ list_result.raises => r = "models/gemini-1.5-flash"
          /\ ~list_result.raises =>
               IF PS \cap VS # {}
               THEN \E k \in 1..4 : r = P[k] /\ FirstIn(P, k, VS)
               ELSE IF flash # {}
               THEN \E k \in 1..Len(V) : r = V[k] /\ FirstIn(V, k, flash)
               ELSE IF pro # {}
               THEN \E k \in 1..Len(V) : r = V[k] /\ FirstIn(V, k, pro)
               ELSE r = "models/gemini-1.5-flash"

\* C4 witness: no preference is valid and a 'pro' model is listed before the
\* 'flash' model that is returned
C4_Witness ==
    /\ pc = "model_out" /\ Truthy(api_key)
    /\ current_model_name = "models/gemini-2.0-flash"
    /\ Len(ListedValidNames) >= 2
    /\ ListedValidNames[1] = "models/gemini-2.5-pro"

\* the long sleeps of the two functions
LongSleep == IF fn = "analyze" THEN 15 ELSE 20

\* C5: in the retry loops the long backoff sleep (15 s in analyze_with_ai, 20 s
\* in generate_marketing_summary) is taken exactly after a failed attempt that is
\* not the last and whose error text contains '429'; a failed attempt that is
\* not the last and has no '429' is followed by a further attempt without long
\* sleep; no backoff sleep follows the third attempt.
C5_BackoffOn429 ==
    [][ /\ pc = "except" =>
             IF attempt < 2
             THEN /\ pc' = "attempt" /\ attempt' = attempt + 1
                  /\ IF Contains("429", error_str)
                     THEN last_sleep' = LongSleep /\ slept' = slept + LongSleep
                     ELSE last_sleep' = 0 /\ slept' = slept
             ELSE /\ pc' = "return"
                  /\ last_sleep' = 0 /\ slept' = slept
        /\ last_sleep' \in { 15, 20 } =>
             /\ pc = "except" /\ attempt < 2
             /\ Contains("429", error_str) /\ error_str = inv_errors[attempt + 1]
        /\ pc' = "call" => pc = "attempt" /\ attempt = inv_calls
      ]_vars

\* C5 witness: generate_marketing_summary has slept 20 s after a '429' on its
\* second attempt, which followed a first failure without '429'
C5_Witness ==
    /\ pc = "attempt" /\ fn = "summary" /\ attempt = 2 /\ last_sleep = 20
    /\ ~Contains("429", inv_errors[1]) /\ Contains("429", inv_errors[2])

\* C6: when all 3 attempts fail the returned string depends only on the third
\* error: analyze_with_ai returns the busy message if that error contains '429'
\* and the 'analysis failed (<error>)' message otherwise,
\* generate_marketing_summary the 'summary generation failed: <error>' message
\* in both cases.  An invocation that returns without a successful call has made
\* its three calls: no error of generate_content ends it before.
C6_ThirdErrorDecides ==
    (pc = "return" /\ Truthy(api_key) /\ ~inv_success) =>
      /\ Len(inv_errors) = 3 /\ inv_calls = 3
      /\ fn = "analyze" =>
           ret = IF Contains("429", inv_errors[3])
                 THEN "[!] AI analysis busy (rate limit), try again later."
                 ELSE "[!] analysis failed (" \o inv_errors[3] \o ")"
      /\ fn = "summary" =>
           ret = "[!] summary generation failed: " \o inv_errors[3]

\* C6 witness: analyze_with_ai returns after two '429' errors and a third error
\* without '429'
C6_Witness ==
    /\ pc = "return" /\ fn = "analyze" /\ ~inv_success /\ Len(inv_errors) = 3
    /\ Contains("429", inv_errors[1]) /\ Contains("429", inv_errors[2])
    /\ ret = "[!] analysis failed (500 Internal error)"

\* C7: every generate_content call is immediately preceded, in its attempt, by
\* the buffer sleep (3 s in analyze_with_ai, 5 s in generate_marketing_summary),
\* so at least 3 s of sleep lie between any two requests to the LLM API.
C7_SleepBeforeCall ==
    pc = "call" =>
      /\ last_sleep = (IF fn = "analyze" THEN 3 ELSE 5)
      /\ slept >= 3

\* C7 witness: the retry of the second headline's analysis is about to call
\* generate_content, right after a failed call without backoff
C7_Witness ==
    /\ pc = "call" /\ fn = "analyze" /\ Len(cards) = 1
    /\ inv_calls = 1 /\ slept = 3

\* C8: get_six_capital_news returns one item per feed entry for the first 10
\* entries only, in feed order, and splits each title at the last ' - ': with a
\* ' - ' in the title, item.title + ' - ' + item.source is the title and
\* item.source contains no ' - '; without, item.title is the title and
\* item.source is the default source.
C8_NewsItems ==
    pc = "news_out" =>
      /\ Len(news_data) = (IF Len(feed) < 10 THEN Len(feed) ELSE 10)
      /\ \A k \in 1..Len(news_data) :
           /\ news_data[k].link = feed[k].link
           /\ IF Contains(" - ", feed[k].title)
              THEN /\ news_data[k].title \o " - " \o news_data[k].source
                        = feed[k].title
                   /\ ~Contains(" - ", news_data[k].source)
              ELSE /\ news_data[k].title = feed[k].title
                   /\ news_data[k].source = "news-media"

\* C8 witness: a feed of more than 10 entries whose first title holds two
\* overlapping separators
C8_Witness ==
    /\ pc = "news_out" /\ Len(feed) > 10 /\ Len(news_data) = 10
    /\ feed[1].title = " - - "
    /\ news_data[1].title = " -" /\ news_data[1].source = ""

\* C9, as stated: without API key no request to the LLM service is made in a
\* run: get_valid_model_name returns None, every card shows the no-model
\* placeholder, analyze_with_ai and generate_marketing_summary are never
\* invoked, and the summary section shows the 'cannot generate marketing
\* summary' error, whatever the run.
C9_SummaryErrorInEveryRun ==
    ~Truthy(api_key) =>
      /\ ~llm_called
      /\ pc # "start" => current_model_name = None
      /\ \A k \in 1..Len(cards) : cards[k].ai = "[!] cannot connect to AI model"
      /\ analyze_begun = <<>> /\ summary_begun = <<>>
      /\ pc = "done" => summary_out = "cannot generate marketing summary"

\* C9, amended: without API key no request to the LLM service is made in a
\* run: get_valid_model_name returns None, every card shows the no-model
\* placeholder, analyze_with_ai and generate_marketing_summary are never
\* invoked, and, when the news list is not empty, the summary section shows the
\* 'cannot generate marketing summary' error; with an empty news list no
\* summary section is rendered.
C9_NoKeyNoCalls ==
    ~Truthy(api_key) =>
      /\ ~llm_called
      /\ pc # "start" => current_model_name = None
      /\ \A k \in 1..Len(cards) : cards[k].ai = "[!] cannot connect to AI model"
      /\ analyze_begun = <<>> /\ summary_begun = <<>>
      /\ fn = None /\ ~InBody /\ pc # "return"
      /\ pc = "done" =>
            IF Len(news_data) > 0
            THEN /\ Len(cards) = Len(news_data)
                 /\ summary_out = "cannot generate marketing summary"
            ELSE summary_out = None

\* C9 witness: a run without API key over two headlines is complete
C9_Witness ==
    /\ ~Truthy(api_key) /\ pc = "done" /\ Len(cards) = 2
    /\ summary_out = "cannot generate marketing summary"

=============================================================================
